---- MODULE Spec2Model ----
(***************************************************************************)
(* POV display driver (Core/Src/POV_Display.c): the column framebuffer and *)
(* its drawing primitives, the TIM2 rotation-period measurement and the    *)
(* TIM3 column pacer.                                                      *)
(*                                                                         *)
(* The specifications share the variables:                                 *)
(*   SpecIsr    the three interrupt handlers (TIM3 period tick, TIM2       *)
(*              overflow, TIM2 input capture) and the TIM2 counter, over a *)
(*              fixed framebuffer; the capture handler is split at its     *)
(*              accesses to PixelsCounter so that a TIM3 tick can be taken *)
(*              inside it.                                                 *)
(*   SpecBurst  the capture handler with a burst of TIM3 ticks inside it.  *)
(*   SpecDraw   the foreground drawing calls, each one atomic, from the    *)
(*              framebuffer/cursor states the calls themselves produce.    *)
(*   SpecShapes one POV_DrawLine / POV_DrawFrame call over all arguments.  *)
(*   SpecWide   the loop of POV_DrawLine pass by pass on a wide display.   *)
(*   SpecTorn   POV_DrawFrame store by store with the handlers in between. *)
(***************************************************************************)
EXTENDS Integers, Sequences, FiniteSets, TLC

(***************************************************************************)
(* Build configuration (POV_Display.h).  The model is scaled down: the     *)
(* driver is written for any RESOLUTION <= 255, PIXELS <= 8.               *)
(***************************************************************************)
RESOLUTION == 7
PIXELS == 5
FONTSIZE == 2
ON == 1
OFF == 0

\* modulus of the 16-bit TIM2 counter: the literal in HAL_TIM_IC_CaptureCallback
CounterModulus == 65536

\* bounds of the model
MaxOverflow == 2
MaxNested == 2
MaxStrLen == 2
MaxOps == 1

\* columns of the wide display on which the line loop is run pass by pass
WideResolution == 200

(***************************************************************************)
(* Fixed-width arithmetic                                                  *)
(***************************************************************************)
Wrap8(x) == x % 256
Wrap16(x) == x % 65536

\* conversion to int8_t (two's complement)
ToInt8(x) == LET m == x % 256 IN IF m >= 128 THEN m - 256 ELSE m

Abs(x) == IF x < 0 THEN -x ELSE x

\* C integer division by two: truncates towards zero
CDiv2(x) == IF x >= 0 THEN x \div 2 ELSE -((-x) \div 2)

Pow2(n) == 2 ^ n

\* (v >> r) & 1 for a uint8_t v
Bit(v, r) == IF r < 8 THEN (v \div Pow2(r)) % 2 ELSE 0

\* (uint8_t)(v | (1 << r)): a bit above the storage width is lost
SetBit(v, r) == IF r < 8 /\ Bit(v, r) = 0 THEN v + Pow2(r) ELSE v

\* (uint8_t)(v & ~(1 << r))
ClearBit(v, r) == IF r < 8 /\ Bit(v, r) = 1 THEN v - Pow2(r) ELSE v

Columns == 0 .. (RESOLUTION - 1)

\* uint8_t POVDigits = RESOLUTION / (FONTSIZE + 1)
POVDigits == Wrap8(RESOLUTION \div (FONTSIZE + 1))

VARIABLES
    PovDisplayData,  \* volatile uint8_t PovDisplayData[RESOLUTION]
    CursPos,         \* uint8_t CursPos
    PixelPos,        \* uint8_t PixelPos
    PixelsCounter,   \* volatile uint8_t PixelsCounter
    ICU_TIM2_OVC,    \* volatile uint16_t ICU_TIM2_OVC
    Capture,         \* volatile uint16_t Capture
    TimeDifference,  \* volatile uint32_t TimeDifference
    Period,          \* the argument last passed to setTIM3InterruptPeriod
    autoReload,      \* TIM3 auto-reload register
    sysClockFreq,    \* uint8_t sysClockFreq
    running,         \* POV_Init has started TIM2 and TIM3 with their interrupts
    pc,              \* position inside HAL_TIM_IC_CaptureCallback
    ccr,             \* TIM2 capture register, latched by the reference event
    tim2cnt,         \* TIM2 counter register
    uif,             \* TIM2 update (overflow) interrupt pending
    gpio,            \* the value on the POV pins (last POV_IntervalsDisplay)
    led,             \* GPIOC pin 13
    refSeen,         \* history: a reference event has programmed TIM3
    icEmitIdx,       \* history: index the capture handler read for its emit
    nested,          \* history: TIM3 ticks taken inside the current capture handler
    tickedSince,     \* history: a TIM3 tick was taken since the handler returned
    parked,          \* history: the index has reached RESOLUTION since the last reference event
    shown,           \* history: what the period ticks since the last reference event emitted, by column
    sinceRef,        \* history: TIM2 ticks elapsed since the last reference event
    last,            \* history: the last drawing call, its arguments, pre-state, result
    nops,            \* history: number of drawing calls made
    line,            \* a POV_DrawLine call in progress, one loop pass at a time
    frame            \* a POV_DrawFrame call in progress, one store at a time

drawVars == <<PovDisplayData, CursPos, PixelPos>>
isrVars == <<PixelsCounter, ICU_TIM2_OVC, Capture, TimeDifference, Period,
             autoReload, sysClockFreq, running, pc, ccr, tim2cnt, uif, gpio, led>>
isrHist == <<refSeen, icEmitIdx, nested, tickedSince, parked, shown, sinceRef>>
drawHist == <<last, nops>>
fgVars == <<line, frame>>
vars == <<drawVars, isrVars, isrHist, drawHist, fgVars>>

(***************************************************************************)
(* Inputs of the interrupt model                                           *)
(***************************************************************************)
\* HAL_RCC_GetSysClockFreq() / 1000000
ClockMHz == {8, 72}

\* the values the TIM2 counter is observed at, and so the values of the
\* capture register at a reference event
CaptureVals == {RESOLUTION - 1, 65535}

\* a framebuffer with pairwise different columns
PatternFrame == [c \in Columns |-> 16 * (c + 1) + c + 1]

NoCall == [op |-> "none"]

\* no column emitted yet
NoneShown == [c \in Columns |-> -1]

\* no foreground call in progress
Idle == [pc |-> "idle"]

(***************************************************************************)
(* Physical output                                                         *)
(***************************************************************************)
\* the pin levels POV_IntervalsDisplay leaves: bits 0 .. PIXELS-1 of the value
POV_IntervalsDisplay(valueToPresent) == valueToPresent % Pow2(PIXELS)

\* the auto-reload value setTIM3InterruptPeriod writes (uint16_t arithmetic result)
setTIM3InterruptPeriod(desiredPeriodMicroseconds) ==
    Wrap16(desiredPeriodMicroseconds * sysClockFreq - 1)

\* PovDisplayData[i] as the build reads it: past the array any byte
ReadData(i) == IF i \in Columns THEN {PovDisplayData[i]} ELSE 0 .. 255

(***************************************************************************)
(* State after static initialisation                                       *)
(***************************************************************************)
InitIsrVars ==
    /\ PixelsCounter = 0
    /\ ICU_TIM2_OVC = 0
    /\ Capture = 0
    /\ TimeDifference = 0
    /\ Period = 0
    /\ autoReload = 0
    /\ sysClockFreq = 0
    /\ running = FALSE
    /\ pc = "idle"
    /\ ccr = 0
    /\ tim2cnt = 0
    /\ uif = FALSE
    /\ gpio = 0
    /\ led = FALSE
    /\ refSeen = FALSE
    /\ icEmitIdx = -1
    /\ nested = 0
    /\ tickedSince = FALSE
    /\ parked = FALSE
    /\ shown = NoneShown
    /\ sinceRef = 0
    /\ line = Idle
    /\ frame = Idle

InitIsr ==
    /\ PovDisplayData = PatternFrame
    /\ CursPos = 0
    /\ PixelPos = 0
    /\ InitIsrVars
    /\ last = NoCall
    /\ nops = 0

(***************************************************************************)
(* POV_Init                                                                *)
(***************************************************************************)
POV_Init ==
    /\ ~running
    /\ \E mhz \in ClockMHz : sysClockFreq' = Wrap8(mhz)
    /\ running' = TRUE
    /\ CursPos' = 0
    /\ PixelPos' = 0
    /\ PixelsCounter' = 0
    /\ UNCHANGED <<PovDisplayData, ICU_TIM2_OVC, Capture, TimeDifference, Period,
                   autoReload, pc, ccr, tim2cnt, uif, gpio, led, isrHist,
                   drawHist, fgVars>>

(***************************************************************************)
(* HAL_TIM_PeriodElapsedCallback, htim->Instance == TIM3                   *)
(***************************************************************************)
\* PixelsCounter++
NextPixelsCounter(n) == Wrap8(n + 1)

\* faulty variant: the handler clears the column it has emitted
Tim3Tick_ConsumesColumn ==
    /\ running
    /\ PixelsCounter' = NextPixelsCounter(PixelsCounter)
    /\ IF PixelsCounter' < RESOLUTION
         THEN /\ \E v \in ReadData(PixelsCounter') :
                   /\ gpio' = POV_IntervalsDisplay(v)
                   /\ shown' = [shown EXCEPT ![PixelsCounter'] = POV_IntervalsDisplay(v)]
              /\ led' = ~led
              /\ PovDisplayData' = [PovDisplayData EXCEPT ![PixelsCounter'] = 0]
         ELSE UNCHANGED <<gpio, led, shown, PovDisplayData>>
    /\ parked' = (parked \/ PixelsCounter' >= RESOLUTION)
    /\ IF pc = "idle"
         THEN tickedSince' = TRUE /\ UNCHANGED nested
         ELSE nested' = nested + 1 /\ UNCHANGED tickedSince
    /\ UNCHANGED <<CursPos, PixelPos, ICU_TIM2_OVC, Capture, TimeDifference, Period,
                   autoReload, sysClockFreq, running, pc, ccr, tim2cnt, uif,
                   refSeen, icEmitIdx, sinceRef, drawHist, fgVars>>

Tim3Tick ==
    /\ running
    /\ PixelsCounter' = NextPixelsCounter(PixelsCounter)
    /\ IF PixelsCounter' < RESOLUTION
         THEN /\ \E v \in ReadData(PixelsCounter') :
                   /\ gpio' = POV_IntervalsDisplay(v)
                   /\ shown' = [shown EXCEPT ![PixelsCounter'] = POV_IntervalsDisplay(v)]
              /\ led' = ~led
         ELSE UNCHANGED <<gpio, led, shown>>
    /\ parked' = (parked \/ PixelsCounter' >= RESOLUTION)
    /\ IF pc = "idle"
         THEN tickedSince' = TRUE /\ UNCHANGED nested
         ELSE nested' = nested + 1 /\ UNCHANGED tickedSince
    /\ UNCHANGED <<drawVars, ICU_TIM2_OVC, Capture, TimeDifference, Period,
                   autoReload, sysClockFreq, running, pc, ccr, tim2cnt, uif,
                   refSeen, icEmitIdx, sinceRef, drawHist, fgVars>>

\* a period tick, at most MaxNested of them inside one run of the capture handler
PacerTick ==
    /\ pc # "idle" => nested < MaxNested
    /\ Tim3Tick

(***************************************************************************)
(* TIM2 counting: the counter moves on to one of the observed values, and  *)
(* a wraparound raises the update interrupt.  A wraparound waits for the   *)
(* previous one to be served, and the tally is kept below MaxOverflow.     *)
(***************************************************************************)
Tim2Count ==
    /\ running
    /\ \E m \in CaptureVals :
         /\ tim2cnt' = m
         /\ IF m > tim2cnt
              THEN /\ sinceRef' = sinceRef + (m - tim2cnt)
                   /\ UNCHANGED uif
              ELSE /\ ~uif
                   /\ ICU_TIM2_OVC < MaxOverflow
                   /\ sinceRef' = sinceRef + (CounterModulus - tim2cnt) + m
                   /\ uif' = TRUE
    /\ UNCHANGED <<drawVars, PixelsCounter, ICU_TIM2_OVC, Capture, TimeDifference,
                   Period, autoReload, sysClockFreq, running, pc, ccr, gpio, led,
                   refSeen, icEmitIdx, nested, tickedSince, parked, shown,
                   drawHist, fgVars>>

(***************************************************************************)
(* HAL_TIM_PeriodElapsedCallback, htim->Instance == TIM2                   *)
(* (same interrupt line as the capture: never inside the capture handler)  *)
(***************************************************************************)
Tim2Overflow ==
    /\ running
    /\ pc = "idle"
    /\ uif
    /\ uif' = FALSE
    /\ ICU_TIM2_OVC' = Wrap16(ICU_TIM2_OVC + 1)
    /\ UNCHANGED <<drawVars, PixelsCounter, Capture, TimeDifference, Period,
                   autoReload, sysClockFreq, running, pc, ccr, tim2cnt, gpio, led,
                   isrHist, drawHist, fgVars>>

(***************************************************************************)
(* HAL_TIM_IC_CaptureCallback, htim->Instance == TIM2                      *)
(***************************************************************************)
\* the reference event latches the counter; the handler starts: PixelsCounter = 0
CaptureReset ==
    /\ running
    /\ pc = "idle"
    /\ ccr' = tim2cnt
    /\ PixelsCounter' = 0
    /\ pc' = "emit"
    /\ nested' = 0
    /\ tickedSince' = FALSE
    /\ icEmitIdx' = -1
    /\ parked' = FALSE
    /\ shown' = NoneShown
    /\ sinceRef' = 0
    /\ UNCHANGED <<drawVars, ICU_TIM2_OVC, Capture, TimeDifference, Period,
                   autoReload, sysClockFreq, running, tim2cnt, uif, gpio, led,
                   refSeen, drawHist, fgVars>>

\* POV_IntervalsDisplay(PovDisplayData[PixelsCounter]): PixelsCounter is read again
CaptureEmit ==
    /\ pc = "emit"
    /\ \E v \in ReadData(PixelsCounter) : gpio' = POV_IntervalsDisplay(v)
    /\ icEmitIdx' = PixelsCounter
    /\ pc' = "measure"
    /\ UNCHANGED <<drawVars, PixelsCounter, ICU_TIM2_OVC, Capture, TimeDifference,
                   Period, autoReload, sysClockFreq, running, ccr, tim2cnt, uif,
                   led, refSeen, nested, tickedSince, parked, shown, sinceRef,
                   drawHist, fgVars>>

\* TimeDifference = (uint32_t)Capture + (uint32_t)ICU_TIM2_OVC * 65536: two
\* 16-bit operands, so the sum is below 2^32 and the uint32_t holds it exactly
ElapsedTicks(cap, ovc) == cap + ovc * CounterModulus

\* uint16_t Period = (uint16_t)(TimeDifference / RESOLUTION)
PeriodOf(td) == Wrap16(td \div RESOLUTION)

\* capture read, period computed and programmed, overflow tally and counter reset
CaptureMeasure ==
    /\ pc = "measure"
    /\ Capture' = ccr
    /\ TimeDifference' = ElapsedTicks(Capture', ICU_TIM2_OVC)
    /\ Period' = PeriodOf(TimeDifference')
    /\ autoReload' = setTIM3InterruptPeriod(Period')
    /\ ICU_TIM2_OVC' = 0
    /\ tim2cnt' = 0
    /\ refSeen' = TRUE
    /\ pc' = "idle"
    /\ UNCHANGED <<drawVars, PixelsCounter, sysClockFreq, running, ccr, uif, gpio,
                   led, icEmitIdx, nested, tickedSince, parked, shown, sinceRef,
                   drawHist, fgVars>>

(***************************************************************************)
(* Drawing engine.  A drawing state is d = [fb, curs, ppos]: the           *)
(* framebuffer, CursPos and PixelPos; each call is an operator from the    *)
(* state before to the state after.                                        *)
(***************************************************************************)
Cur == [fb |-> PovDisplayData, curs |-> CursPos, ppos |-> PixelPos]

\* PovDisplayData[i] = v (an index past the array does not reach the array)
Store(fb, i, v) == IF i \in Columns THEN [fb EXCEPT ![i] = v] ELSE fb

\* the font table POV_Font[Chr - 32][i]: an opaque lookup, here non-zero bytes
\* that differ between characters and between glyph columns
POV_Font(idx, i) == ((idx * 5 + i * 3) % 250) + 1

RECURSIVE WriteCharLoop(_, _, _, _)
\* for (; PixelsCount < FONTSIZE; PixelsCount++) of POV_WriteChar
WriteCharLoop(fb, pos, Chr, PixelsCount) ==
    IF PixelsCount < FONTSIZE
      THEN WriteCharLoop(Store(fb, pos, POV_Font(Chr - 32, PixelsCount)),
                         Wrap8((pos + 1) % RESOLUTION), Chr, PixelsCount + 1)
      ELSE [fb |-> fb, pos |-> pos]

\* faulty variant: the spacing column after the glyph is not written
POV_WriteChar_NoBlank(d, Chr) ==
    LET w == WriteCharLoop(d.fb, Wrap8(d.curs * (FONTSIZE + 1)), Chr, 0)
    IN [fb   |-> w.fb,
        curs |-> Wrap8((d.curs + 1) % POVDigits),
        ppos |-> w.pos]

POV_WriteChar(d, Chr) ==
    LET w == WriteCharLoop(d.fb, Wrap8(d.curs * (FONTSIZE + 1)), Chr, 0)
    IN [fb   |-> Store(w.fb, w.pos, 0),
        curs |-> Wrap8((d.curs + 1) % POVDigits),
        ppos |-> w.pos]

POV_SetCursor(d, Pos) ==
    IF (RESOLUTION \div (FONTSIZE + 1)) > Pos
      THEN [d EXCEPT !.curs = Pos, !.ppos = Wrap8(Pos * (FONTSIZE + 1))]
      ELSE d

\* faulty variant: the range check of the slot is left to POV_SetCursor
POV_WriteCharInPos_NoCheck(d, Chr, Pos) ==
    POV_WriteChar(POV_SetCursor(d, Pos), Chr)

POV_WriteCharInPos(d, Chr, Pos) ==
    IF (RESOLUTION \div (FONTSIZE + 1)) > Pos
      THEN POV_WriteChar(POV_SetCursor(d, Pos), Chr)
      ELSE d

\* faulty variant: the cursor slot is not reset
POV_Clear_KeepCursor(d) ==
    [fb |-> [c \in Columns |-> 0], curs |-> d.curs, ppos |-> 0]

POV_Clear(d) ==
    [fb |-> [c \in Columns |-> 0], curs |-> 0, ppos |-> 0]

\* faulty variant: the row check is off by one (PIXELS >= Row)
POV_WritePixel_OffByOne(d, Row, Column, State) ==
    IF (State = ON \/ State = OFF) /\ PIXELS >= Row /\ RESOLUTION > Column
      THEN IF State = ON
             THEN [d EXCEPT !.fb[Column] = SetBit(@, Row)]
             ELSE [d EXCEPT !.fb[Column] = ClearBit(@, Row)]
      ELSE d

POV_WritePixel(d, Row, Column, State) ==
    IF (State = ON \/ State = OFF) /\ PIXELS > Row /\ RESOLUTION > Column
      THEN IF State = ON
             THEN [d EXCEPT !.fb[Column] = SetBit(@, Row)]
             ELSE [d EXCEPT !.fb[Column] = ClearBit(@, Row)]
      ELSE d

\* faulty variant: the complement is masked to the PIXELS displayed bits
NotByte_Masked(v) == (255 - v) % Pow2(PIXELS)

\* (uint8_t)~v
NotByte(v) == 255 - v

POV_InvertDisplay(d) ==
    [d EXCEPT !.fb = [c \in Columns |-> NotByte(d.fb[c])]]

RECURSIVE POV_WriteString(_, _)
POV_WriteString(d, Str) ==
    IF Str = <<>> THEN d
    ELSE POV_WriteString(POV_WriteChar(d, Head(Str)), Tail(Str))

POV_WriteStringInPos(d, Str, Pos) ==
    POV_WriteString(POV_SetCursor(d, Pos), Str)

\* faulty variant: the columns from BitmapSize on are cleared
POV_DrawBitmap_ClearsRest(d, MyBitmap, BitmapSize) ==
    IF ~MyBitmap.null /\ BitmapSize <= RESOLUTION
      THEN [d EXCEPT !.fb = [c \in Columns |->
                IF c < BitmapSize THEN MyBitmap.data[c + 1] ELSE 0]]
      ELSE d

\* MyBitmap is [null, data]: a NULL pointer, or an array data[0 ..] (1-based here)
POV_DrawBitmap(d, MyBitmap, BitmapSize) ==
    IF ~MyBitmap.null /\ BitmapSize <= RESOLUTION
      THEN [d EXCEPT !.fb = [c \in Columns |->
                IF c < BitmapSize THEN MyBitmap.data[c + 1] ELSE d.fb[c]]]
      ELSE d

RECURSIVE FrameRows(_, _, _)
\* for (PixelsCountRow = Row1; PixelsCountRow <= Row2; PixelsCountRow++)
FrameRows(v, PixelsCountRow, Row2) ==
    IF PixelsCountRow <= Row2
      THEN FrameRows(SetBit(v, PixelsCountRow), PixelsCountRow + 1, Row2)
      ELSE v

\* faulty variant: the two rows are assigned (=) instead of OR-ed in (|=)
FrameRowPair_Assign(v, Row1, Row2) == SetBit(SetBit(0, Row1), Row2)

\* PovDisplayData[c] |= (1 << Row1) | (1 << Row2)
FrameRowPair(v, Row1, Row2) == SetBit(SetBit(v, Row1), Row2)

RECURSIVE FrameColumns_LeftEdgeOnly(_, _, _, _, _, _)
\* faulty variant: only the first column is treated as an edge
FrameColumns_LeftEdgeOnly(fb, PixelsCountColumn, Column1, Row1, Row2, Column2) ==
    IF PixelsCountColumn <= Column2
      THEN LET v == FrameRowPair(fb[PixelsCountColumn], Row1, Row2)
               w == IF PixelsCountColumn = Column1
                      THEN FrameRows(v, Row1, Row2)
                      ELSE v
           IN FrameColumns_LeftEdgeOnly(Store(fb, PixelsCountColumn, w), PixelsCountColumn + 1,
                                        Column1, Row1, Row2, Column2)
      ELSE fb

RECURSIVE FrameColumns(_, _, _, _, _, _)
\* for (; PixelsCountColumn <= Column2; PixelsCountColumn++)
FrameColumns(fb, PixelsCountColumn, Column1, Row1, Row2, Column2) ==
    IF PixelsCountColumn <= Column2
      THEN LET v == FrameRowPair(fb[PixelsCountColumn], Row1, Row2)
               w == IF PixelsCountColumn = Column1 \/ PixelsCountColumn = Column2
                      THEN FrameRows(v, Row1, Row2)
                      ELSE v
           IN FrameColumns(Store(fb, PixelsCountColumn, w), PixelsCountColumn + 1,
                           Column1, Row1, Row2, Column2)
      ELSE fb

\* faulty variant: the check Row2 > Row1 is missing
FrameValid_NoRowOrder(Column1, Row1, Row2, Column2) ==
    PIXELS > Row2 /\ PIXELS > Row1 /\ RESOLUTION > Column1 /\ RESOLUTION > Column2

\* the bounds check of POV_DrawFrame
FrameValid(Column1, Row1, Row2, Column2) ==
    PIXELS > Row2 /\ Row2 > Row1 /\ RESOLUTION > Column1 /\ RESOLUTION > Column2

POV_DrawFrame(d, Column1, Row1, Row2, Column2) ==
    IF FrameValid(Column1, Row1, Row2, Column2)
      THEN [d EXCEPT !.fb = FrameColumns(d.fb, Column1, Column1, Row1, Row2, Column2)]
      ELSE d

\* the int8_t locals POV_DrawLine computes before its loop
LineDeltas(Column1, Row1, Column2, Row2) ==
    LET dx == ToInt8(Abs(Column2 - Column1))
        dy == ToInt8(Abs(Row2 - Row1))
    IN [dx |-> dx,
        sx |-> IF Column1 < Column2 THEN 1 ELSE -1,
        dy |-> dy,
        sy |-> IF Row1 < Row2 THEN 1 ELSE -1,
        err |-> ToInt8(CDiv2(IF dx > dy THEN dx ELSE -dy))]

\* one pass through the tail of the loop body: the running point and the
\* error term after the two conditional updates
LineNext(Column1, Row1, dx, sx, dy, sy, err) ==
    LET e2 == err
        stepC == e2 > -dx
        stepR == e2 < dy
        err1 == IF stepC THEN ToInt8(err - dy) ELSE err
        err2 == IF stepR THEN ToInt8(err1 + dx) ELSE err1
    IN [col |-> IF stepC THEN Wrap8(Column1 + sx) ELSE Column1,
        row |-> IF stepR THEN Wrap8(Row1 + sy) ELSE Row1,
        err |-> err2]

RECURSIVE LineLoop(_, _, _, _, _, _, _, _, _, _)
\* while (1) of POV_DrawLine; dx, dy, sx, sy, err are int8_t
LineLoop(d, Column1, Row1, Column2, Row2, dx, sx, dy, sy, err) ==
    LET p == POV_WritePixel(d, Row1, Column1, ON)
    IN IF Row1 = Row2 /\ Column1 = Column2
         THEN p
         ELSE LET n == LineNext(Column1, Row1, dx, sx, dy, sy, err)
              IN LineLoop(p, n.col, n.row, Column2, Row2, dx, sx, dy, sy, n.err)

POV_DrawLine(d, Column1, Row1, Column2, Row2) ==
    IF Row1 >= PIXELS \/ Column1 >= RESOLUTION \/ Row2 >= PIXELS \/ Column2 >= RESOLUTION
      THEN d
      ELSE LET k == LineDeltas(Column1, Row1, Column2, Row2)
           IN LineLoop(d, Column1, Row1, Column2, Row2, k.dx, k.sx, k.dy, k.sy, k.err)

POV_DrawTriangle(d, Column1, Row1, Column2, Row2, Column3, Row3) ==
    POV_DrawLine(POV_DrawLine(POV_DrawLine(d, Column1, Row1, Column2, Row2),
                              Column2, Row2, Column3, Row3),
                 Column3, Row3, Column1, Row1)

POV_WriteColumn(d, Column, Value) ==
    IF Column >= RESOLUTION THEN d ELSE [d EXCEPT !.fb[Column] = Value]

POV_ReadColumn(d, Column) ==
    IF Column >= RESOLUTION THEN 0 ELSE d.fb[Column]

POV_ReadPixel(d, Row, Column) ==
    IF Column >= RESOLUTION \/ Row >= PIXELS
      THEN 0
      ELSE Bit(d.fb[Column], Row)   \* (PovDisplayData[Column] >> Row) & ON

(***************************************************************************)
(* Inputs of the drawing calls: for every uint8_t argument values inside   *)
(* its range, on its boundary and far outside                              *)
(***************************************************************************)
Chars == {32, 65}
Strings == UNION {[1 .. n -> Chars] : n \in 0 .. MaxStrLen}
PixelRows == {0, 1, PIXELS - 1, PIXELS, 255}
PixelCols == {0, 1, RESOLUTION - 1, RESOLUTION, 255}
PixelStates == {OFF, ON, 2}
Slots == {0, 1, POVDigits, 255}
ColumnValues == {0, 1, 165, 255}
FrameColArgs == {1, 4, RESOLUTION}
FrameRowArgs == {1, 3, PIXELS}
\* <<column, row>>
LinePoints == {<<0, 0>>, <<2, 1>>, <<RESOLUTION - 1, PIXELS - 1>>,
               <<RESOLUTION, 0>>, <<0, PIXELS>>, <<255, 255>>}
TrianglePoints == {<<0, 0>>, <<RESOLUTION - 1, PIXELS - 1>>,
                   <<RESOLUTION, 0>>, <<0, PIXELS>>}
NullBitmap == [null |-> TRUE, data |-> <<>>]
Bitmaps == {NullBitmap,
            [null |-> FALSE, data |-> [i \in 1 .. RESOLUTION |-> (i * 37) % 256]],
            [null |-> FALSE, data |-> [i \in 1 .. RESOLUTION |-> 255]]}
BitmapSizes == {0, 1, RESOLUTION - 1, RESOLUTION, RESOLUTION + 1, 255}

(***************************************************************************)
(* The drawing states a call can start from.  Every framebuffer content is *)
(* reachable (POV_DrawBitmap, POV_WriteColumn); the cursor pairs are those *)
(* POV_Init, POV_Clear and POV_SetCursor leave (slot, slot * (FONTSIZE+1)) *)
(* and those POV_WriteChar leaves (next slot, the blank column).           *)
(***************************************************************************)
InitFrames == {[c \in Columns |-> 0], PatternFrame, [c \in Columns |-> 255]}

CursorStates ==
    {<<s, Wrap8(s * (FONTSIZE + 1))>> : s \in 0 .. (POVDigits - 1)}
    \cup {<<(s + 1) % POVDigits, s * (FONTSIZE + 1) + FONTSIZE>> : s \in 0 .. (POVDigits - 1)}

InitDraw ==
    /\ PovDisplayData \in InitFrames
    /\ \E cs \in CursorStates : CursPos = cs[1] /\ PixelPos = cs[2]
    /\ InitIsrVars
    /\ last = NoCall
    /\ nops = 0

\* the effect of a drawing call op(args) taking the drawing state to d2 and
\* returning ret
Effect(op, args, d2, ret) ==
    /\ PovDisplayData' = d2.fb
    /\ CursPos' = d2.curs
    /\ PixelPos' = d2.ppos
    /\ last' = [op |-> op, args |-> args, pre |-> Cur, ret |-> ret]
    /\ nops' = nops + 1
    /\ UNCHANGED <<isrVars, isrHist, fgVars>>

Call(op, args, d2, ret) ==
    /\ nops < MaxOps
    /\ Effect(op, args, d2, ret)

WriteCharCall ==
    \E c \in Chars : Call("writeChar", [Chr |-> c], POV_WriteChar(Cur, c), 0)

WriteCharInPosCall ==
    \E c \in Chars, p \in Slots :
        Call("writeCharInPos", [Chr |-> c, Pos |-> p], POV_WriteCharInPos(Cur, c, p), 0)

SetCursorCall ==
    \E p \in Slots : Call("setCursor", [Pos |-> p], POV_SetCursor(Cur, p), 0)

ClearCall == Call("clear", <<>>, POV_Clear(Cur), 0)

WritePixelCall ==
    \E r \in PixelRows, c \in PixelCols, s \in PixelStates :
        Call("writePixel", [Row |-> r, Column |-> c, State |-> s],
             POV_WritePixel(Cur, r, c, s), 0)

InvertDisplayCall == Call("invert", <<>>, POV_InvertDisplay(Cur), 0)

WriteStringCall ==
    \E str \in Strings : Call("writeString", [Str |-> str], POV_WriteString(Cur, str), 0)

WriteStringInPosCall ==
    \E str \in Strings, p \in Slots :
        Call("writeStringInPos", [Str |-> str, Pos |-> p],
             POV_WriteStringInPos(Cur, str, p), 0)

DrawBitmapCall ==
    \E b \in Bitmaps, n \in BitmapSizes :
        Call("drawBitmap", [MyBitmap |-> b, BitmapSize |-> n], POV_DrawBitmap(Cur, b, n), 0)

DrawFrameCall ==
    \E c1 \in FrameColArgs, r1 \in FrameRowArgs, r2 \in FrameRowArgs, c2 \in FrameColArgs :
        Call("drawFrame", [Column1 |-> c1, Row1 |-> r1, Row2 |-> r2, Column2 |-> c2],
             POV_DrawFrame(Cur, c1, r1, r2, c2), 0)

DrawLineCall ==
    \E p \in LinePoints, q \in LinePoints :
        Call("drawLine", [Column1 |-> p[1], Row1 |-> p[2], Column2 |-> q[1], Row2 |-> q[2]],
             POV_DrawLine(Cur, p[1], p[2], q[1], q[2]), 0)

DrawTriangleCall ==
    \E p \in TrianglePoints, q \in TrianglePoints, t \in TrianglePoints :
        Call("drawTriangle", <<p, q, t>>,
             POV_DrawTriangle(Cur, p[1], p[2], q[1], q[2], t[1], t[2]), 0)

WriteColumnCall ==
    \E c \in PixelCols, v \in ColumnValues :
        Call("writeColumn", [Column |-> c, Value |-> v], POV_WriteColumn(Cur, c, v), 0)

ReadColumnCall ==
    \E c \in PixelCols :
        Call("readColumn", [Column |-> c], Cur, POV_ReadColumn(Cur, c))

ReadPixelCall ==
    \E r \in PixelRows, c \in PixelCols :
        Call("readPixel", [Row |-> r, Column |-> c], Cur, POV_ReadPixel(Cur, r, c))

NextDraw ==
    \/ WriteCharCall
    \/ WriteCharInPosCall
    \/ SetCursorCall
    \/ ClearCall
    \/ WritePixelCall
    \/ InvertDisplayCall
    \/ WriteStringCall
    \/ WriteStringInPosCall
    \/ DrawBitmapCall
    \/ DrawFrameCall
    \/ DrawLineCall
    \/ DrawTriangleCall
    \/ WriteColumnCall
    \/ ReadColumnCall
    \/ ReadPixelCall

SpecDraw == InitDraw /\ [][NextDraw]_vars

NextIsr ==
    \/ POV_Init
    \/ PacerTick
    \/ Tim2Count
    \/ Tim2Overflow
    \/ CaptureReset
    \/ CaptureEmit
    \/ CaptureMeasure

SpecIsr == InitIsr /\ [][NextIsr]_vars

(***************************************************************************)
(* Properties of the interrupt handlers (SpecIsr)                          *)
(***************************************************************************)

\* C1: the pacer index PixelsCounter never exceeds RESOLUTION; once it equals
\* RESOLUTION a period tick leaves it unchanged, and only a reference event
\* (the capture handler's reset to 0) changes it.
C1_PacerParks ==
    [][/\ PixelsCounter' <= RESOLUTION
       /\ (PixelsCounter = RESOLUTION /\ PixelsCounter' # PixelsCounter)
             => (PixelsCounter' = 0 /\ pc = "idle" /\ pc' = "emit")]_vars

\* C2: the column the capture handler emits is column 0 whatever TIM3 ticks are
\* taken inside the handler, and when the handler has returned and no tick was
\* taken since, the pacer index is 0.
C2_CaptureEmitsColumnZero ==
    /\ icEmitIdx \in {-1, 0}
    /\ (pc = "idle" /\ refSeen /\ ~tickedSince) => PixelsCounter = 0

\* C3: after a reference event with elapsed ticks E = TimeDifference, the period
\* programmed is floor(E / RESOLUTION), and (for a period of at least 1) the
\* auto-reload value is that period times the clock in MHz, minus one: neither
\* 16-bit variable loses anything.
C3_PeriodIsFloor ==
    refSeen =>
        /\ Period = TimeDifference \div RESOLUTION
        /\ TimeDifference \div RESOLUTION >= 1
              => autoReload = (TimeDifference \div RESOLUTION) * sysClockFreq - 1

\* C4: the pacer timer does not run before the first reference event, and no
\* reference event programs it with an interval of 0.
C4_NeverZeroOrUnmeasured ==
    /\ (running /\ pc = "idle") => refSeen
    /\ refSeen => Period # 0

(***************************************************************************)
(* Properties of the drawing calls (SpecDraw)                              *)
(***************************************************************************)
PixelValid(Row, Column) == Row < PIXELS /\ Column < RESOLUTION

C6_OutOfRangeNoOp ==
    LET a == last.args
        unchanged == Cur = last.pre
    IN /\ (last.op = "writeColumn" /\ a.Column >= RESOLUTION) => unchanged
       /\ (last.op = "drawLine"
             /\ (a.Column1 >= RESOLUTION \/ a.Column2 >= RESOLUTION
                   \/ a.Row1 >= PIXELS \/ a.Row2 >= PIXELS)) => unchanged
       /\ (last.op = "drawFrame"
             /\ (a.Column1 >= RESOLUTION \/ a.Column2 >= RESOLUTION
                   \/ a.Row1 >= PIXELS \/ a.Row2 >= PIXELS \/ a.Row2 <= a.Row1))
             => unchanged
       /\ (last.op = "drawBitmap"
             /\ (a.MyBitmap.null \/ a.BitmapSize > RESOLUTION)) => unchanged
       /\ (last.op = "setCursor" /\ a.Pos >= RESOLUTION \div (FONTSIZE + 1))
             => unchanged
       /\ (last.op = "readColumn" /\ a.Column >= RESOLUTION) => last.ret = 0

\* drawFrame with in-range columns and rows but row2 <= row1 was called on a
\* framebuffer in which the frame's pixels were not already set
C6_Witness ==
    /\ last.op = "drawFrame"
    /\ last.args.Column1 < RESOLUTION /\ last.args.Column2 < RESOLUTION
    /\ last.args.Column1 <= last.args.Column2
    /\ last.args.Row1 < PIXELS /\ last.args.Row2 < last.args.Row1
    /\ Bit(last.pre.fb[last.args.Column1], last.args.Row1) = 0
    /\ Cur = last.pre

VertexValid(p) == p[1] < RESOLUTION /\ p[2] < PIXELS

\* C7: drawTriangle with at least one vertex out of range writes nothing: the
\* framebuffer is unchanged, also when the other vertices are in range.
C7_TriangleNoPartialWrite ==
    (last.op = "drawTriangle" /\ \E i \in 1 .. 3 : ~VertexValid(last.args[i]))
       => PovDisplayData = last.pre.fb

\* C8: after clear() every readColumn(c), c < RESOLUTION, returns 0, the cursor is
\* slot 0 with column 0, and a following writeChar puts its glyph at columns
\* 0 .. FONTSIZE-1.
C8_ClearResets ==
    last.op = "clear" =>
        /\ \A c \in Columns : POV_ReadColumn(Cur, c) = 0
        /\ CursPos = 0
        /\ PixelPos = 0
        /\ \A ch \in Chars : \A i \in 0 .. (FONTSIZE - 1) :
              POV_WriteChar(Cur, ch).fb[i] = POV_Font(ch - 32, i)

\* clear() was called with a non-zero column and the cursor away from slot 0
C8_Witness ==
    /\ last.op = "clear"
    /\ last.pre.curs # 0
    /\ last.pre.ppos # 0
    /\ \E c \in Columns : last.pre.fb[c] # 0

\* C9: invert() complements every storage bit of every column, so that a second
\* invert() restores every column exactly (the bits at positions >= PIXELS too),
\* and invert() leaves the cursor alone.
C9_InvertTwice ==
    last.op = "invert" =>
        /\ \A c \in Columns, r \in 0 .. 7 :
              Bit(PovDisplayData[c], r) = 1 - Bit(last.pre.fb[c], r)
        /\ POV_InvertDisplay(Cur).fb = last.pre.fb
        /\ CursPos = last.pre.curs
        /\ PixelPos = last.pre.ppos

\* invert() was called on a framebuffer with a bit set at a position >= PIXELS,
\* and the cursor away from slot 0
C9_Witness ==
    /\ last.op = "invert"
    /\ \E c \in Columns : last.pre.fb[c] >= Pow2(PIXELS)
    /\ \E c \in Columns : last.pre.fb[c] % Pow2(PIXELS) # 0
    /\ last.pre.curs # 0

\* C10: writeChar at slot s sets column (s*(FONTSIZE+1)+i) mod RESOLUTION to
\* glyph column i for i < FONTSIZE and the next column to 0, changes no other
\* column and moves the cursor to slot (s+1) mod slotCount; writeString of two
\* characters from slot 0 (a display of at least two slots) fills columns
\* 0 .. 2*(FONTSIZE+1)-1, with columns FONTSIZE and 2*FONTSIZE+1 equal to 0, and
\* changes no other column.
C10_WriteCharLayout ==
    /\ last.op = "writeChar" =>
         LET s == last.pre.curs
             at(i) == (s * (FONTSIZE + 1) + i) % RESOLUTION
         IN /\ \A i \in 0 .. (FONTSIZE - 1) :
                  PovDisplayData[at(i)] = POV_Font(last.args.Chr - 32, i)
            /\ PovDisplayData[at(FONTSIZE)] = 0
            /\ \A c \in Columns \ {at(i) : i \in 0 .. FONTSIZE} :
                  PovDisplayData[c] = last.pre.fb[c]
            /\ CursPos = (s + 1) % (RESOLUTION \div (FONTSIZE + 1))
    /\ (last.op = "writeString" /\ Len(last.args.Str) = 2 /\ last.pre.curs = 0
          /\ RESOLUTION \div (FONTSIZE + 1) >= 2) =>
         /\ \A i \in 0 .. (FONTSIZE - 1) :
               /\ PovDisplayData[i] = POV_Font(last.args.Str[1] - 32, i)
               /\ PovDisplayData[FONTSIZE + 1 + i] = POV_Font(last.args.Str[2] - 32, i)
         /\ PovDisplayData[FONTSIZE] = 0
         /\ PovDisplayData[2 * FONTSIZE + 1] = 0
         /\ \A c \in Columns :
               c >= 2 * (FONTSIZE + 1) => PovDisplayData[c] = last.pre.fb[c]

\* writeString of two different characters from slot 0 on a framebuffer with
\* every bit set
C10_Witness ==
    /\ last.op = "writeString"
    /\ Len(last.args.Str) = 2
    /\ last.args.Str[1] # last.args.Str[2]
    /\ last.pre.curs = 0
    /\ RESOLUTION \div (FONTSIZE + 1) >= 2
    /\ \A c \in Columns : last.pre.fb[c] = 255
    /\ PovDisplayData[FONTSIZE] = 0

(***************************************************************************)
(* Shapes: one POV_DrawLine or POV_DrawFrame call, over every in-range     *)
(* pair of line endpoints and every frame rectangle up to one past the     *)
(* range, from each of the prepared framebuffers (SpecShapes)              *)
(***************************************************************************)
InitShapes ==
    /\ PovDisplayData \in InitFrames
    /\ CursPos = 0
    /\ PixelPos = 0
    /\ InitIsrVars
    /\ last = NoCall
    /\ nops = 0

DrawLineInRange ==
    /\ nops = 0
    /\ \E c1 \in Columns, r1 \in 0 .. (PIXELS - 1), c2 \in Columns, r2 \in 0 .. (PIXELS - 1) :
         Effect("drawLine", [Column1 |-> c1, Row1 |-> r1, Column2 |-> c2, Row2 |-> r2],
                POV_DrawLine(Cur, c1, r1, c2, r2), 0)

DrawFrameAny ==
    /\ nops = 0
    /\ \E c1 \in 0 .. RESOLUTION, r1 \in 0 .. PIXELS, r2 \in 0 .. PIXELS, c2 \in 0 .. RESOLUTION :
         Effect("drawFrame", [Column1 |-> c1, Row1 |-> r1, Row2 |-> r2, Column2 |-> c2],
                POV_DrawFrame(Cur, c1, r1, r2, c2), 0)

NextShapes ==
    \/ DrawLineInRange
    \/ DrawFrameAny

SpecShapes == InitShapes /\ [][NextShapes]_vars

\* the pixels (column, row) that are ON in a framebuffer
OnPixels(fb) == {p \in Columns \X (0 .. 7) : Bit(fb[p[1]], p[2]) = 1}

\* the maximum of two numbers
Max(a, b) == IF a >= b THEN a ELSE b

\* the minimum of two numbers
Min(a, b) == IF a <= b THEN a ELSE b

\* C11 on a display of RESOLUTION columns, where no span exceeds 127:
\* for in-range endpoints drawLine(col1,row1,col2,row2) turns ON a set of
\* pixels that contains both endpoints, lies inside their bounding rectangle,
\* has exactly max(|dcol|,|drow|)+1 pixels and is one 8-connected path (one
\* pixel per step of the longer axis, neighbours at most one apart on the
\* other axis); every other pixel and the cursor keep their value, so no
\* pixel is turned OFF; drawLine(0,0,4,4) plots exactly the diagonal.
C11_NarrowLineShape ==
    (last.op = "drawLine" /\ PixelValid(last.args.Row1, last.args.Column1)
                          /\ PixelValid(last.args.Row2, last.args.Column2))
    => LET c1 == last.args.Column1
           r1 == last.args.Row1
           c2 == last.args.Column2
           r2 == last.args.Row2
           blank == [last.pre EXCEPT !.fb = [c \in Columns |-> 0]]
           P == OnPixels(POV_DrawLine(blank, c1, r1, c2, r2).fb)
           dc == Abs(c2 - c1)
           dr == Abs(r2 - r1)
       IN /\ <<c1, r1>> \in P
          /\ <<c2, r2>> \in P
          /\ \A p \in P : /\ Min(c1, c2) <= p[1] /\ p[1] <= Max(c1, c2)
                          /\ Min(r1, r2) <= p[2] /\ p[2] <= Max(r1, r2)
          /\ Cardinality(P) = Max(dc, dr) + 1
          /\ IF dc >= dr
               THEN /\ \A c \in Min(c1, c2) .. Max(c1, c2) : \E p \in P : p[1] = c
                    /\ \A p \in P, q \in P : q[1] = p[1] + 1 => Abs(q[2] - p[2]) <= 1
               ELSE /\ \A r \in Min(r1, r2) .. Max(r1, r2) : \E p \in P : p[2] = r
                    /\ \A p \in P, q \in P : q[2] = p[2] + 1 => Abs(q[1] - p[1]) <= 1
          /\ \A c \in Columns, r \in 0 .. 7 :
                Bit(PovDisplayData[c], r) = IF <<c, r>> \in P THEN 1 ELSE Bit(last.pre.fb[c], r)
          /\ CursPos = last.pre.curs
          /\ PixelPos = last.pre.ppos
          /\ (c1 = 0 /\ r1 = 0 /\ c2 = 4 /\ r2 = 4) => P = {<<i, i>> : i \in 0 .. 4}

\* a slanted line, neither axis-parallel nor diagonal, has been drawn over a
\* framebuffer that already had pixels ON
C11_NarrowWitness ==
    /\ last.op = "drawLine"
    /\ last.args.Column1 = RESOLUTION - 1 /\ last.args.Row1 = 0
    /\ last.args.Column2 = 0 /\ last.args.Row2 = 2
    /\ last.pre.fb = PatternFrame
    /\ PovDisplayData # last.pre.fb

\* C12: for arguments that pass the check, with col1 <= col2,
\* drawFrame(col1,row1,row2,col2) leaves ON rows row1 and row2 in every column
\* col1..col2 and every row row1..row2 in columns col1 and col2; every other
\* pixel keeps its value, so no other pixel is turned ON, none is turned OFF
\* and no column outside col1..col2 changes.
C12_FrameShape ==
    (last.op = "drawFrame"
     /\ FrameValid(last.args.Column1, last.args.Row1, last.args.Row2, last.args.Column2)
     /\ last.args.Column1 <= last.args.Column2)
    => LET c1 == last.args.Column1
           r1 == last.args.Row1
           r2 == last.args.Row2
           c2 == last.args.Column2
           OnFrame(c, r) == /\ c1 <= c /\ c <= c2
                            /\ \/ r = r1
                               \/ r = r2
                               \/ ((c = c1 \/ c = c2) /\ r1 <= r /\ r <= r2)
       IN /\ \A c \in Columns, r \in 0 .. 7 :
                Bit(PovDisplayData[c], r) = IF OnFrame(c, r) THEN 1 ELSE Bit(last.pre.fb[c], r)
          /\ \A c \in Columns : (c < c1 \/ c > c2) => PovDisplayData[c] = last.pre.fb[c]

\* drawFrame(1,1,3,4) has been drawn on the blank framebuffer
C12_Witness ==
    /\ last.op = "drawFrame"
    /\ last.args = [Column1 |-> 1, Row1 |-> 1, Row2 |-> 3, Column2 |-> 4]
    /\ last.pre.fb = [c \in Columns |-> 0]
    /\ OnPixels(PovDisplayData) =
         {<<1, 1>>, <<1, 2>>, <<1, 3>>, <<2, 1>>, <<2, 3>>, <<3, 1>>, <<3, 3>>,
          <<4, 1>>, <<4, 2>>, <<4, 3>>}


(***************************************************************************)
(* Properties of the positioned writes and of the bitmap copy (SpecDraw)   *)
(***************************************************************************)

\* the drawing state d with the cursor placed on slot Pos
AtSlot(d, Pos) == [d EXCEPT !.curs = Pos, !.ppos = Wrap8(Pos * (FONTSIZE + 1))]

\* C15 as stated: with slot >= slotCount, writeCharAt and writeStringAt both
\* leave the cursor where it was and then write at the current cursor exactly
\* as writeChar / writeString would; with slot < slotCount both write starting
\* at column slot*(FONTSIZE+1).
C15_InvalidSlotStillWrites ==
    /\ (last.op = "writeCharInPos" /\ last.args.Pos >= POVDigits)
       => Cur = POV_WriteChar(last.pre, last.args.Chr)
    /\ (last.op = "writeStringInPos" /\ last.args.Pos >= POVDigits)
       => Cur = POV_WriteString(last.pre, last.args.Str)
    /\ (last.op = "writeCharInPos" /\ last.args.Pos < POVDigits)
       => Cur = POV_WriteChar(AtSlot(last.pre, last.args.Pos), last.args.Chr)
    /\ (last.op = "writeStringInPos" /\ last.args.Pos < POVDigits)
       => Cur = POV_WriteString(AtSlot(last.pre, last.args.Pos), last.args.Str)

\* C15 (amended): with slot >= slotCount, writeStringAt leaves the cursor where
\* it was and then writes the string at the current cursor exactly as
\* writeString would, while writeCharAt does nothing at all (framebuffer and
\* cursor unchanged); with slot < slotCount both write starting at column
\* slot*(FONTSIZE+1), writeCharAt putting its glyph in the FONTSIZE columns
\* from there.
C15_SlotWrites ==
    /\ (last.op = "writeCharInPos" /\ last.args.Pos >= POVDigits)
       => Cur = last.pre
    /\ (last.op = "writeStringInPos" /\ last.args.Pos >= POVDigits)
       => Cur = POV_WriteString(last.pre, last.args.Str)
    /\ (last.op = "writeCharInPos" /\ last.args.Pos < POVDigits)
       => /\ Cur = POV_WriteChar(AtSlot(last.pre, last.args.Pos), last.args.Chr)
          /\ \A i \in 0 .. (FONTSIZE - 1) :
                PovDisplayData[last.args.Pos * (FONTSIZE + 1) + i]
                  = POV_Font(last.args.Chr - 32, i)
    /\ (last.op = "writeStringInPos" /\ last.args.Pos < POVDigits)
       => Cur = POV_WriteString(AtSlot(last.pre, last.args.Pos), last.args.Str)

\* writeCharAt has been called with an out-of-range slot in a state where
\* writeChar would have changed the display
C15_Witness ==
    /\ last.op = "writeCharInPos"
    /\ last.args.Pos >= POVDigits
    /\ POV_WriteChar(last.pre, last.args.Chr) # last.pre
    /\ Cur = last.pre

\* the arguments pass the check of POV_DrawBitmap
BitmapValid(MyBitmap, BitmapSize) == ~MyBitmap.null /\ BitmapSize <= RESOLUTION

\* C17 as stated: drawBitmap(data, size) with non-null data and size <=
\* RESOLUTION sets column i to data[i] for every i < size and does not preserve
\* the existing columns at indices >= size (whenever those columns held at
\* least two different values, one of them has changed); the cursor is
\* unchanged.
C17_BitmapDropsRest ==
    (last.op = "drawBitmap" /\ BitmapValid(last.args.MyBitmap, last.args.BitmapSize))
    => /\ \A i \in Columns : i < last.args.BitmapSize
             => PovDisplayData[i] = last.args.MyBitmap.data[i + 1]
       /\ (\E i \in Columns, j \in Columns :
              /\ i >= last.args.BitmapSize /\ j >= last.args.BitmapSize
              /\ last.pre.fb[i] # last.pre.fb[j])
          => \E i \in Columns : /\ i >= last.args.BitmapSize
                                /\ PovDisplayData[i] # last.pre.fb[i]
       /\ CursPos = last.pre.curs
       /\ PixelPos = last.pre.ppos

\* C17 (amended): drawBitmap(data, size) with non-null data and size <=
\* RESOLUTION sets column i to data[i] for every i < size and leaves every
\* column at an index >= size as it was; the cursor is unchanged.
C17_BitmapKeepsRest ==
    (last.op = "drawBitmap" /\ BitmapValid(last.args.MyBitmap, last.args.BitmapSize))
    => /\ \A i \in Columns : i < last.args.BitmapSize
             => PovDisplayData[i] = last.args.MyBitmap.data[i + 1]
       /\ \A i \in Columns : i >= last.args.BitmapSize
             => PovDisplayData[i] = last.pre.fb[i]
       /\ CursPos = last.pre.curs
       /\ PixelPos = last.pre.ppos

\* a one-column bitmap has been drawn over a framebuffer whose other columns
\* are lit
C17_Witness ==
    /\ last.op = "drawBitmap"
    /\ ~last.args.MyBitmap.null
    /\ last.args.BitmapSize = 1
    /\ last.pre.fb = PatternFrame
    /\ PovDisplayData[0] # last.pre.fb[0]
    /\ PovDisplayData[RESOLUTION - 1] = PatternFrame[RESOLUTION - 1]


(***************************************************************************)
(* Properties of the pacer sweep and of the tick tally (SpecIsr)           *)
(***************************************************************************)

\* C13: between two reference events the period ticks emit the columns in
\* strictly increasing index order, the k-th tick (the index counts the ticks
\* since the reset) emitting framebuffer column k for 1 <= k < RESOLUTION and
\* toggling the debug pin, each column at most once; once the index has
\* reached RESOLUTION no period tick emits a column or toggles the debug pin
\* until the next reference event.
C13_SweepOnce ==
    [][(running /\ pc' = pc /\ PixelsCounter' # PixelsCounter)
       => IF parked
            THEN gpio' = gpio /\ led' = led /\ shown' = shown
            ELSE /\ PixelsCounter' = PixelsCounter + 1
                 /\ PixelsCounter' < RESOLUTION
                      => /\ \A c \in Columns : c >= PixelsCounter' => shown[c] = -1
                         /\ gpio' = POV_IntervalsDisplay(PovDisplayData[PixelsCounter'])
                         /\ shown'[PixelsCounter'] = gpio'
                         /\ led' # led]_vars

\* C14: an overflow notification adds exactly one to the tally and changes
\* nothing else; the capture handler computes the elapsed ticks as captured
\* value + tally * 65536 and leaves the tally and the counter at 0; and at a
\* reference event that sum counts only ticks since the previous reference
\* event: it does not exceed the ticks TIM2 has really counted since then.
C14_TallyCountsThisTurn ==
    [][/\ (uif /\ ~uif')
          => /\ ICU_TIM2_OVC' = ICU_TIM2_OVC + 1
             /\ UNCHANGED <<drawVars, PixelsCounter, Capture, TimeDifference, Period,
                            autoReload, sysClockFreq, running, pc, ccr, tim2cnt,
                            gpio, led>>
       /\ (pc = "measure" /\ pc' = "idle")
          => /\ TimeDifference' = ccr + ICU_TIM2_OVC * CounterModulus
             /\ ICU_TIM2_OVC' = 0
             /\ tim2cnt' = 0
       /\ (pc = "idle" /\ pc' = "emit")
          => tim2cnt + ICU_TIM2_OVC * CounterModulus <= sinceRef]_vars


(***************************************************************************)
(* Ticks in a burst inside the capture handler (SpecBurst): the pacer's    *)
(* interrupt may be taken any number of times between two statements of    *)
(* the handler; here up to RESOLUTION times in one run of the handler.     *)
(***************************************************************************)
MaxBurst == RESOLUTION

BurstTick ==
    /\ pc # "idle"
    /\ nested < MaxBurst
    /\ Tim3Tick

NextBurst ==
    \/ POV_Init
    \/ BurstTick
    \/ CaptureReset
    \/ CaptureEmit
    \/ CaptureMeasure

SpecBurst == InitIsr /\ [][NextBurst]_vars

\* C20: the cursor slot is in [0, RESOLUTION/(FONTSIZE+1)), the derived column
\* is in [0, RESOLUTION), and the framebuffer is read with an index in
\* [0, RESOLUTION): by the capture handler for its emit, and by a period tick
\* for the column it shows.
C20_IndicesInRange ==
    /\ CursPos \in 0 .. (POVDigits - 1)
    /\ PixelPos \in Columns
    /\ icEmitIdx # -1 => icEmitIdx \in Columns
    /\ DOMAIN shown = Columns

(***************************************************************************)
(* POV_DrawLine pass by pass on a display of WideResolution columns        *)
(* (SpecWide).  The loop depends on RESOLUTION only through the range      *)
(* checks, and never reads the framebuffer: the model keeps the running    *)
(* point, which is the pixel the next pass plots, and the error term.      *)
(***************************************************************************)
WideColumns == {0, 1, 127, 128, WideResolution - 1, WideResolution}
WideRows == {0, PIXELS - 1, PIXELS}

\* the range check at the head of POV_DrawLine, for the wide display
WideValid(Column1, Row1, Column2, Row2) ==
    ~(Row1 >= PIXELS \/ Column1 >= WideResolution \/ Row2 >= PIXELS \/ Column2 >= WideResolution)

LineBegin ==
    /\ line.pc = "idle"
    /\ \E c1 \in WideColumns, r1 \in WideRows, c2 \in WideColumns, r2 \in WideRows :
          line' = [pc   |-> IF WideValid(c1, r1, c2, r2) THEN "run" ELSE "done",
                   col1 |-> c1, row1 |-> r1, col2 |-> c2, row2 |-> r2,
                   col  |-> c1, row  |-> r1,
                   k    |-> LineDeltas(c1, r1, c2, r2),
                   err  |-> LineDeltas(c1, r1, c2, r2).err]
    /\ UNCHANGED <<drawVars, isrVars, isrHist, drawHist, frame>>

\* one pass of while (1): plot, leave at the end point, else move on
LinePass ==
    /\ line.pc = "run"
    /\ IF line.row = line.row2 /\ line.col = line.col2
         THEN line' = [line EXCEPT !.pc = "done"]
         ELSE LET n == LineNext(line.col, line.row, line.k.dx, line.k.sx,
                                line.k.dy, line.k.sy, line.err)
              IN line' = [line EXCEPT !.col = n.col, !.row = n.row, !.err = n.err]
    /\ UNCHANGED <<drawVars, isrVars, isrHist, drawHist, frame>>

NextWide ==
    \/ LineBegin
    \/ LinePass

SpecWide == InitIsr /\ [][NextWide]_vars

\* C11, on the passes of the loop: for in-range endpoints every pixel drawLine
\* plots lies inside the bounding rectangle of the endpoints, the pixel of the
\* next pass is an 8-neighbour of this one, one step further along the longer
\* axis (one connected path of max(|dcol|,|drow|)+1 pixels from the first
\* endpoint), and the call returns with the second endpoint plotted.
C11_LinePath ==
    /\ line.pc = "run"
       => /\ Min(line.col1, line.col2) <= line.col /\ line.col <= Max(line.col1, line.col2)
          /\ Min(line.row1, line.row2) <= line.row /\ line.row <= Max(line.row1, line.row2)
          /\ ~(line.row = line.row2 /\ line.col = line.col2)
             => LET n == LineNext(line.col, line.row, line.k.dx, line.k.sx,
                                  line.k.dy, line.k.sy, line.err)
                IN /\ Abs(n.col - line.col) <= 1
                   /\ Abs(n.row - line.row) <= 1
                   /\ IF Abs(line.col2 - line.col1) >= Abs(line.row2 - line.row1)
                        THEN Abs(n.col - line.col) = 1
                        ELSE Abs(n.row - line.row) = 1
    /\ line.pc = "done" /\ WideValid(line.col1, line.row1, line.col2, line.row2)
       => (line.row = line.row2 /\ line.col = line.col2)

\* C16: drawLine terminates for every pair of in-range endpoints, spans above
\* 127 included: every pixel a pass plots is in range, and a pass that is not
\* at the end point moves on (it changes the running point or the error
\* term), so that the loop reaches the end point, where it leaves.
C16_LineTerminates ==
    /\ line.pc = "run"
       => /\ line.row < PIXELS
          /\ line.col < WideResolution
          /\ \/ (line.row = line.row2 /\ line.col = line.col2)
             \/ LET n == LineNext(line.col, line.row, line.k.dx, line.k.sx,
                                  line.k.dy, line.k.sy, line.err)
                IN <<n.col, n.row, n.err>> # <<line.col, line.row, line.err>>
    /\ line.pc = "done" /\ WideValid(line.col1, line.row1, line.col2, line.row2)
       => (line.row = line.row2 /\ line.col = line.col2)

(***************************************************************************)
(* POV_DrawFrame store by store, with the interrupt handlers running       *)
(* between its stores (SpecTorn)                                           *)
(***************************************************************************)
TornFrames ==
    {[Column1 |-> 1, Row1 |-> 1, Row2 |-> 3, Column2 |-> 4],
     [Column1 |-> 4, Row1 |-> 1, Row2 |-> 3, Column2 |-> 1],
     [Column1 |-> 1, Row1 |-> 3, Row2 |-> 1, Column2 |-> 4]}

\* the call starts: the check of the arguments, PixelsCountColumn = Column1
\* (pre and to are history: the drawing state at the call, and the state the
\* call gives when nothing interrupts it)
FrameBegin ==
    /\ running
    /\ frame.pc = "idle"
    /\ \E a \in TornFrames :
          frame' = [pc  |-> IF FrameValid(a.Column1, a.Row1, a.Row2, a.Column2)
                              THEN "run" ELSE "done",
                    a   |-> a,
                    pre |-> Cur,
                    to  |-> POV_DrawFrame(Cur, a.Column1, a.Row1, a.Row2, a.Column2),
                    c   |-> a.Column1,
                    r   |-> -1]
    /\ UNCHANGED <<drawVars, isrVars, isrHist, drawHist, line>>

\* the next store of the call: the row pair of column c (r = -1), then for an
\* edge column one row after the other; no store is left: the call returns
FrameStore ==
    /\ frame.pc = "run"
    /\ LET a == frame.a
           c == frame.c
       IN IF c > a.Column2
            THEN /\ frame' = [frame EXCEPT !.pc = "done"]
                 /\ UNCHANGED PovDisplayData
            ELSE IF frame.r = -1
                   THEN /\ PovDisplayData' =
                             Store(PovDisplayData, c, FrameRowPair(PovDisplayData[c], a.Row1, a.Row2))
                        /\ frame' = IF c = a.Column1 \/ c = a.Column2
                                      THEN [frame EXCEPT !.r = a.Row1]
                                      ELSE [frame EXCEPT !.c = Wrap8(c + 1)]
                   ELSE /\ PovDisplayData' =
                             Store(PovDisplayData, c, SetBit(PovDisplayData[c], frame.r))
                        /\ frame' = IF frame.r + 1 <= a.Row2
                                      THEN [frame EXCEPT !.r = frame.r + 1]
                                      ELSE [frame EXCEPT !.c = Wrap8(c + 1), !.r = -1]
    /\ UNCHANGED <<CursPos, PixelPos, isrVars, isrHist, drawHist, line>>

\* a period tick of the sweep: taken between two runs of the capture handler,
\* up to the tick that parks the index
SweepTick ==
    /\ pc = "idle"
    /\ PixelsCounter < RESOLUTION
    /\ Tim3Tick

NextTorn ==
    \/ POV_Init
    \/ SweepTick
    \/ Tim2Count
    \/ Tim2Overflow
    \/ CaptureReset
    \/ CaptureEmit
    \/ CaptureMeasure
    \/ FrameBegin
    \/ FrameStore

SpecTorn == InitIsr /\ [][NextTorn]_vars

\* the framebuffer before the drawFrame call in progress or finished
FrameFrom == IF frame.pc = "idle" THEN PovDisplayData ELSE frame.pre.fb

\* the framebuffer the call gives when nothing interrupts it
FrameTo == IF frame.pc = "idle" THEN PovDisplayData ELSE frame.to.fb

\* C18: a period tick taken in the middle of drawFrame emits the column as the
\* stores made so far have left it: every value a sweep has emitted has all
\* the pixels of the column before the operation and none that the column
\* lacks after it.  Such a value can be neither the value before nor the value
\* after (an edge column between its partial updates), and one sweep can emit
\* columns from both the framebuffer before and the framebuffer after.
C18_EmittedBetween ==
    [][(pc' = pc /\ PixelsCounter' # PixelsCounter /\ PixelsCounter' < RESOLUTION)
       => /\ gpio' = POV_IntervalsDisplay(PovDisplayData[PixelsCounter'])
          /\ shown'[PixelsCounter'] = gpio'
          /\ \A r \in 0 .. (PIXELS - 1) :
                /\ Bit(FrameFrom[PixelsCounter'], r) <= Bit(gpio', r)
                /\ Bit(gpio', r) <= Bit(FrameTo[PixelsCounter'], r)]_vars

\* the torn state: within one sweep a tick has emitted an edge column between
\* its partial updates, another tick a column as it was before the operation,
\* and a third one a column as it is after it
C18_Witness ==
    /\ frame.pc = "done"
    /\ LET from == FrameFrom
           to == FrameTo
       IN /\ \E c \in Columns :
                /\ shown[c] # -1
                /\ shown[c] # POV_IntervalsDisplay(from[c])
                /\ shown[c] # POV_IntervalsDisplay(to[c])
          /\ \E c \in Columns :
                /\ shown[c] = POV_IntervalsDisplay(from[c])
                /\ shown[c] # POV_IntervalsDisplay(to[c])
          /\ \E c \in Columns :
                /\ shown[c] = POV_IntervalsDisplay(to[c])
                /\ shown[c] # POV_IntervalsDisplay(from[c])

\* C19: a step of an interrupt handler (period tick, counter overflow,
\* reference event) leaves the framebuffer and the cursor unchanged; a step of
\* the drawing operation leaves the pacer index, the overflow tally and the
\* pacer period unchanged, the period being changed only by the reference-event
\* handler; and when the operation has returned, framebuffer and cursor are
\* what the uninterrupted operation gives, whatever interrupts were taken.
C19_HandlersAndDrawingApart ==
    [][/\ isrVars' # isrVars => UNCHANGED drawVars
       /\ frame' # frame
          => UNCHANGED <<PixelsCounter, ICU_TIM2_OVC, Period, autoReload>>
       /\ (Period' # Period \/ autoReload' # autoReload)
          => (pc = "measure" /\ pc' = "idle")
       /\ (frame.pc = "run" /\ frame'.pc = "done")
          => /\ PovDisplayData' = frame.to.fb
             /\ CursPos' = frame.to.curs
             /\ PixelPos' = frame.to.ppos
             /\ frame.to.curs = frame.pre.curs
             /\ frame.to.ppos = frame.pre.ppos]_vars

\* drawFrame has returned after a reference event and a period tick were
\* taken between its stores: the tick emitted a half-drawn edge column
C19_Witness ==
    /\ frame.pc = "done"
    /\ PovDisplayData # frame.pre.fb
    /\ refSeen
    /\ shown[frame.a.Column1] # -1
    /\ shown[frame.a.Column1] # POV_IntervalsDisplay(frame.pre.fb[frame.a.Column1])
    /\ shown[frame.a.Column1] # POV_IntervalsDisplay(PovDisplayData[frame.a.Column1])


====
